---- MODULE Spec2Model ----
(***************************************************************************)
(* Runtime value model of the Nuru interpreter (package object).           *)
(*                                                                         *)
(* Values are records [Type, Value].  Value is always a sequence of        *)
(* integers:                                                               *)
(*   Integer  four 16-bit limbs of the int64, least significant first,     *)
(*            the top limb signed (-32768..32767);                         *)
(*   Float    <<sign bit, halves>>, the float64 (-1)^sign * halves / 2;    *)
(*   Boolean  <<1>> or <<0>>;                                              *)
(*   String   the bytes of the Go string;                                  *)
(*   others   <<>>.                                                        *)
(* A uint64 is four unsigned 16-bit limbs, least significant first.        *)
(***************************************************************************)
EXTENDS Integers, Sequences, FiniteSets, TLC

\* ------------------------------------------------------------ object types

INTEGER_OBJ == "NAMBA"
FLOAT_OBJ == "DESIMALI"
BOOLEAN_OBJ == "BOOLEAN"
NULL_OBJ == "TUPU"
RETURN_VALUE_OBJ == "RUDISHA"
ERROR_OBJ == "KOSA"
FUNCTION_OBJ == "UNDO (FUNCTION)"
STRING_OBJ == "NENO"
BUILTIN_OBJ == "YA_NDANI"
ARRAY_OBJ == "ORODHA"
DICT_OBJ == "KAMUSI"
CONTINUE_OBJ == "ENDELEA"
BREAK_OBJ == "VUNJA"

\* Go's nil interface value, as returned by Next() on exhaustion.
Nil == [Type |-> "nil", Value |-> <<>>]

Obj(t, v) == [Type |-> t, Value |-> v]

\* ------------------------------------------------------------ machine integers

Limb == 2 ^ 16

\* int64(n) for a small host integer n: sign-extended to four limbs.
ToInt64(n) ==
    <<n % Limb, (n \div Limb) % Limb,
      IF n < 0 THEN Limb - 1 ELSE 0, IF n < 0 THEN -1 ELSE 0>>

\* uint64(v) for an int64 v: the same bit pattern read unsigned.
Uint64OfInt64(v) == <<v[1], v[2], v[3], v[4] % Limb>>

IntegerOf(n) == Obj(INTEGER_OBJ, ToInt64(n))
StringOf(bytes) == Obj(STRING_OBJ, bytes)
BooleanOf(b) == Obj(BOOLEAN_OBJ, IF b THEN <<1>> ELSE <<0>>)
FloatOf(sign, halves) == Obj(FLOAT_OBJ, <<sign, halves>>)

\* string(b) for a byte b: the UTF-8 encoding of the code point U+00b.
StringOfByte(b) ==
    IF b < 128 THEN <<b>> ELSE <<192 + (b \div 64), 128 + (b % 64)>>

\* ------------------------------------------------------------ Inspect

RECURSIVE DecimalNat(_)
\* The decimal digits of a natural number, as ASCII bytes.
DecimalNat(n) ==
    IF n < 10 THEN <<48 + n>> ELSE DecimalNat(n \div 10) \o <<48 + (n % 10)>>

\* The magnitude of an int64 as a uint64 (two's complement negation).
Magnitude(v) ==
    IF v[4] >= 0 THEN Uint64OfInt64(v)
    ELSE LET u == Uint64OfInt64(v)
             n1 == (Limb - 1 - u[1]) + 1
             n2 == (Limb - 1 - u[2]) + (n1 \div Limb)
             n3 == (Limb - 1 - u[3]) + (n2 \div Limb)
             n4 == (Limb - 1 - u[4]) + (n3 \div Limb)
         IN  <<n1 % Limb, n2 % Limb, n3 % Limb, n4 % Limb>>

\* Quotient and remainder of a uint64 by ten, most significant limb first.
DivMod10(u) ==
    LET c4 == u[4]
        c3 == (c4 % 10) * Limb + u[3]
        c2 == (c3 % 10) * Limb + u[2]
        c1 == (c2 % 10) * Limb + u[1]
    IN  [q |-> <<c1 \div 10, c2 \div 10, c3 \div 10, c4 \div 10>>, r |-> c1 % 10]

RECURSIVE DecimalUint64(_)
DecimalUint64(u) ==
    LET d == DivMod10(u)
    IN  IF d.q = <<0, 0, 0, 0>> THEN <<48 + d.r>>
        ELSE DecimalUint64(d.q) \o <<48 + d.r>>

\* fmt.Sprintf("%d", i.Value)
InspectInteger(v) ==
    (IF v[4] < 0 THEN <<45>> ELSE <<>>) \o DecimalUint64(Magnitude(v))

\* strconv.FormatFloat(f.Value, 'f', -1, 64) on the floats h/2: the sign bit
\* prints (also for negative zero), then the integer part, then ".5".
InspectFloat(v) ==
    (IF v[1] = 1 THEN <<45>> ELSE <<>>) \o DecimalNat(v[2] \div 2)
        \o (IF v[2] % 2 = 1 THEN <<46, 53>> ELSE <<>>)

\* "kweli" / "sikweli"
InspectBoolean(v) ==
    IF v[1] = 1 THEN <<107, 119, 101, 108, 105>>
    ELSE <<115, 105, 107, 119, 101, 108, 105>>

Inspect(o) ==
    CASE o.Type = INTEGER_OBJ -> InspectInteger(o.Value)
      [] o.Type = FLOAT_OBJ -> InspectFloat(o.Value)
      [] o.Type = BOOLEAN_OBJ -> InspectBoolean(o.Value)
      [] o.Type = STRING_OBJ -> o.Value

\* ------------------------------------------------------------ HashKey

RECURSIVE Xor(_, _)
\* Bitwise exclusive or of two naturals.
Xor(a, b) ==
    IF a = 0 THEN b
    ELSE IF b = 0 THEN a
    ELSE ((a + b) % 2) + 2 * Xor(a \div 2, b \div 2)

\* hash/fnv: the 64-bit offset basis 0xcbf29ce484222325 and the 64-bit prime
\* 0x00000100000001b3.
FnvOffset64 == <<8997, 33826, 40164, 52210>>
FnvPrime64 == <<435, 0, 256, 0>>

\* a * b modulo 2^64 on limbs.
MulUint64(a, b) ==
    LET s1 == a[1] * b[1]
        s2 == a[1] * b[2] + a[2] * b[1] + (s1 \div Limb)
        s3 == a[1] * b[3] + a[2] * b[2] + a[3] * b[1] + (s2 \div Limb)
        s4 == a[1] * b[4] + a[2] * b[3] + a[3] * b[2] + a[4] * b[1] + (s3 \div Limb)
    IN  <<s1 % Limb, s2 % Limb, s3 % Limb, s4 % Limb>>

RECURSIVE Fnv64a(_, _)
\* fnv.New64a(); h.Write(bytes); h.Sum64(): for every byte, xor then multiply.
Fnv64a(h, bytes) ==
    IF bytes = <<>> THEN h
    ELSE Fnv64a(MulUint64(<<Xor(h[1], bytes[1]), h[2], h[3], h[4]>>, FnvPrime64),
                Tail(bytes))

HashKeyRec(t, digest) == [Type |-> t, Value |-> digest]

BooleanHashKey(o) ==
    HashKeyRec(o.Type, IF o.Value[1] = 1 THEN <<1, 0, 0, 0>> ELSE <<0, 0, 0, 0>>)

\* IntegerHashKey with a fault: the value is cut to 32 bits before it is widened.
IntegerHashKey_Truncated(o) ==
    HashKeyRec(o.Type, <<o.Value[1], o.Value[2], 0, 0>>)

IntegerHashKey(o) == HashKeyRec(o.Type, Uint64OfInt64(o.Value))

FloatHashKey(o) == HashKeyRec(o.Type, Fnv64a(FnvOffset64, Inspect(o)))

StringHashKey(o) == HashKeyRec(o.Type, Fnv64a(FnvOffset64, o.Value))

\* HashableTypes with a fault: Float has no HashKey method.
HashableTypes_NoFloat == {BOOLEAN_OBJ, INTEGER_OBJ, STRING_OBJ}

\* The types that implement Hashable: those with a HashKey method.
HashableTypes == {BOOLEAN_OBJ, INTEGER_OBJ, FLOAT_OBJ, STRING_OBJ}

Hashable(o) == o.Type \in HashableTypes

HashKey(o) ==
    CASE o.Type = BOOLEAN_OBJ -> BooleanHashKey(o)
      [] o.Type = INTEGER_OBJ -> IntegerHashKey(o)
      [] o.Type = FLOAT_OBJ -> FloatHashKey(o)
      [] o.Type = STRING_OBJ -> StringHashKey(o)

\* ------------------------------------------------------------ strings, maps

\* Go's < on strings: byte-wise lexicographic order.
StrLess(a, b) ==
    \E i \in 1..Len(b) :
        /\ \A j \in 1..(i - 1) : j <= Len(a) /\ a[j] = b[j]
        /\ (i > Len(a) \/ a[i] < b[i])

StrLeq(a, b) == a = b \/ StrLess(a, b)

DictPair(k, v) == [Key |-> k, Value |-> v]

\* m[hk] = pair on a Go map.
MapPut(m, hk, pair) ==
    [h \in DOMAIN m \cup {hk} |-> IF h = hk THEN pair ELSE m[h]]

\* delete(m, hk) on a Go map.
MapDelete(m, hk) == [h \in DOMAIN m \ {hk} |-> m[h]]

EmptyMap == [h \in {} |-> Nil]

RECURSIVE SortedFrom(_, _)
SortedFrom(pairs, S) ==
    IF S = {} THEN <<>>
    ELSE LET m == CHOOSE h \in S :
                    \A g \in S : StrLeq(Inspect(pairs[h].Key), Inspect(pairs[g].Key))
         IN  <<Inspect(pairs[m].Key)>> \o SortedFrom(pairs, S \ {m})

\* SortedKeys with a fault: the keys end up in descending order.
SortedKeys_Descending(pairs) ==
    LET asc == SortedFrom(pairs, DOMAIN pairs)
    IN  [i \in 1..Len(asc) |-> asc[Len(asc) + 1 - i]]

\* Dict.Next: keys, one rendered key per stored pair, after sort.Strings(keys).
SortedKeys(pairs) == SortedFrom(pairs, DOMAIN pairs)

\* Dict.Next: the values dict[k] may hold after the loop over d.Pairs.  Go
\* iterates a map in an unspecified order, so when several stored keys render
\* as k the last write is any one of them.
RenderedLookup(pairs, k) ==
    {pairs[h] : h \in {g \in DOMAIN pairs : Inspect(pairs[g].Key) = k}}

\* ------------------------------------------------------------ bounds, inputs

MaxLen == 3
MaxPairs == 3
MaxExtra == 2
MaxMuts == 2

Traversals == {1, 2}

\* Bytes of the String inputs: 'a', 'b' and 0xC3, the lead byte of a two-byte
\* UTF-8 character.
Bytes == {97, 98, 195}

Null == Obj(NULL_OBJ, <<>>)

Elems == {IntegerOf(7), StringOf(<<97>>), Null}

\* Dict keys: Integer 1 and Float 1.0 both render "1"; "10" sorts before "2".
KeyUniverse ==
    {IntegerOf(1), FloatOf(0, 2), IntegerOf(10), IntegerOf(2),
     StringOf(<<97>>), StringOf(<<98>>), BooleanOf(TRUE)}

ValueUniverse == {IntegerOf(1), IntegerOf(2)}

\* The keys of the Dicts that change during a pass.
MutKeys == {IntegerOf(1), FloatOf(0, 2), StringOf(<<97>>), StringOf(<<98>>)}

SeqsUpTo(S, n) == UNION {[1..k -> S] : k \in 0..n}

\* The value a key is first stored with.
InitialValue(k) ==
    IF Inspect(k)[Len(Inspect(k))] % 2 = 1 THEN IntegerOf(1) ELSE IntegerOf(2)

RECURSIVE DictOf(_)
\* The Pairs of a Dict built from a set of keys.
DictOf(K) ==
    IF K = {} THEN EmptyMap
    ELSE LET k == CHOOSE x \in K : TRUE
         IN  MapPut(DictOf(K \ {k}), HashKey(k), DictPair(k, InitialValue(k)))

\* ------------------------------------------------------------ state

VARIABLES
    active,    \* the kind of value the run exercises
    str,       \* a String: [Value, offset]
    arr,       \* an Array: [Elements, offset]
    dict,      \* a Dict: [Pairs, offset]
    log,       \* the Next() calls since the last Reset(): [t, pos, key, val]
    modified,  \* whether the contents changed since the last Reset()
    changedBefore, \* whether a key inserted or removed during the pass sorted
               \* before the cursor
    present,   \* the pairs stored ever since the last Reset()
    muts,      \* the number of changes made to the Dict
    lastOp,    \* the operation that led to this state
    evalRes,   \* the evaluator's result of the last Dict operation
    lastKey,   \* the key of the last Dict operation
    stored,    \* the keys stored so far with the value last stored under each
    intA, intB, hkA, hkB   \* two Integers and their HashKeys

vars ==
    <<active, str, arr, dict, log, modified, changedBefore, present, muts,
      lastOp, evalRes, lastKey, stored, intA, intB, hkA, hkB>>

iterVars == <<active, str, arr, dict, log, modified, changedBefore, present, muts>>
hashVars == <<evalRes, lastKey, stored>>
intVars == <<intA, intB, hkA, hkB>>

Range(f) == {f[x] : x \in DOMAIN f}

Entry(t, pos, k, v) == [t |-> t, pos |-> pos, key |-> k, val |-> v]

\* ------------------------------------------------------------ String

\* StringNext with a fault: an exhausted cursor rewinds by itself.
StringNext_Rewind(t) ==
    /\ active = STRING_OBJ
    /\ Len(log) < Len(str.Value) + MaxExtra
    /\ LET offset == str.offset
       IN  IF Len(str.Value) > offset
           THEN /\ str' = [str EXCEPT !.offset = offset + 1]
                /\ log' = Append(log, Entry(t, offset, IntegerOf(offset),
                                    StringOf(StringOfByte(str.Value[offset + 1]))))
           ELSE /\ str' = [str EXCEPT !.offset = 0]
                /\ log' = Append(log, Entry(t, offset, Nil, Nil))
    /\ lastOp' = "Next"
    /\ UNCHANGED <<active, arr, dict, modified, changedBefore, present, muts>>
    /\ UNCHANGED <<hashVars, intVars>>

StringNext(t) ==
    /\ active = STRING_OBJ
    /\ Len(log) < Len(str.Value) + MaxExtra
    /\ LET offset == str.offset
       IN  IF Len(str.Value) > offset
           THEN /\ str' = [str EXCEPT !.offset = offset + 1]
                /\ log' = Append(log, Entry(t, offset, IntegerOf(offset),
                                    StringOf(StringOfByte(str.Value[offset + 1]))))
           ELSE /\ str' = str
                /\ log' = Append(log, Entry(t, offset, Nil, Nil))
    /\ lastOp' = "Next"
    /\ UNCHANGED <<active, arr, dict, modified, changedBefore, present, muts>>
    /\ UNCHANGED <<hashVars, intVars>>

StringReset ==
    /\ active = STRING_OBJ
    /\ str' = [str EXCEPT !.offset = 0]
    /\ log' = <<>>
    /\ lastOp' = "Reset"
    /\ UNCHANGED <<active, arr, dict, modified, changedBefore, present, muts>>
    /\ UNCHANGED <<hashVars, intVars>>

\* ------------------------------------------------------------ Array

\* ArrayNext with a fault: the advanced index is not stored.
ArrayNext_NoAdvance(t) ==
    /\ active = ARRAY_OBJ
    /\ Len(log) < Len(arr.Elements) + MaxExtra
    /\ LET idx == arr.offset
       IN  IF Len(arr.Elements) > idx
           THEN /\ arr' = arr
                /\ log' = Append(log, Entry(t, idx, IntegerOf(idx), arr.Elements[idx + 1]))
           ELSE /\ arr' = arr
                /\ log' = Append(log, Entry(t, idx, Nil, Nil))
    /\ lastOp' = "Next"
    /\ UNCHANGED <<active, str, dict, modified, changedBefore, present, muts>>
    /\ UNCHANGED <<hashVars, intVars>>

ArrayNext(t) ==
    /\ active = ARRAY_OBJ
    /\ Len(log) < Len(arr.Elements) + MaxExtra
    /\ LET idx == arr.offset
       IN  IF Len(arr.Elements) > idx
           THEN /\ arr' = [arr EXCEPT !.offset = idx + 1]
                /\ log' = Append(log, Entry(t, idx, IntegerOf(idx), arr.Elements[idx + 1]))
           ELSE /\ arr' = arr
                /\ log' = Append(log, Entry(t, idx, Nil, Nil))
    /\ lastOp' = "Next"
    /\ UNCHANGED <<active, str, dict, modified, changedBefore, present, muts>>
    /\ UNCHANGED <<hashVars, intVars>>

ArrayReset ==
    /\ active = ARRAY_OBJ
    /\ arr' = [arr EXCEPT !.offset = 0]
    /\ log' = <<>>
    /\ lastOp' = "Reset"
    /\ UNCHANGED <<active, str, dict, modified, changedBefore, present, muts>>
    /\ UNCHANGED <<hashVars, intVars>>

\* ------------------------------------------------------------ Dict

\* DictNext with a fault: the cursor advances on every call, also when exhausted.
DictNext_AlwaysAdvance(t) ==
    /\ active = DICT_OBJ
    /\ Len(log) < Cardinality(DOMAIN dict.Pairs) + MaxExtra
    /\ LET keys == SortedKeys(dict.Pairs)
       IN  IF dict.offset < Len(keys)
           THEN \E pair \in RenderedLookup(dict.Pairs, keys[dict.offset + 1]) :
                    /\ dict' = [dict EXCEPT !.offset = dict.offset + 1]
                    /\ log' = Append(log, Entry(t, dict.offset, pair.Key, pair.Value))
           ELSE /\ dict' = [dict EXCEPT !.offset = dict.offset + 1]
                /\ log' = Append(log, Entry(t, dict.offset, Nil, Nil))
    /\ lastOp' = "Next"
    /\ UNCHANGED <<active, str, arr, modified, changedBefore, present, muts>>
    /\ UNCHANGED <<hashVars, intVars>>

DictNext(t) ==
    /\ active = DICT_OBJ
    /\ Len(log) < Cardinality(DOMAIN dict.Pairs) + MaxExtra
    /\ LET keys == SortedKeys(dict.Pairs)
       IN  IF dict.offset < Len(keys)
           THEN \E pair \in RenderedLookup(dict.Pairs, keys[dict.offset + 1]) :
                    /\ dict' = [dict EXCEPT !.offset = dict.offset + 1]
                    /\ log' = Append(log, Entry(t, dict.offset, pair.Key, pair.Value))
           ELSE /\ dict' = dict
                /\ log' = Append(log, Entry(t, dict.offset, Nil, Nil))
    /\ lastOp' = "Next"
    /\ UNCHANGED <<active, str, arr, modified, changedBefore, present, muts>>
    /\ UNCHANGED <<hashVars, intVars>>

DictReset ==
    /\ active = DICT_OBJ
    /\ dict' = [dict EXCEPT !.offset = 0]
    /\ log' = <<>>
    /\ modified' = FALSE
    /\ changedBefore' = FALSE
    /\ present' = Range(dict.Pairs)
    /\ lastOp' = "Reset"
    /\ UNCHANGED <<active, str, arr, muts>>
    /\ UNCHANGED <<hashVars, intVars>>

\* The pass has ended: a Next() call has yielded (absent, absent).
PassOver == \E i \in 1..Len(log) : log[i].key = Nil

\* The highest rank key k can have among the rendered keys of pairs: the
\* number of other stored keys whose rendered text does not sort after k's.
KeysBefore(pairs, k) ==
    Cardinality({h \in DOMAIN pairs \ {HashKey(k)} :
                    StrLeq(Inspect(pairs[h].Key), Inspect(k))})

\* d.Pairs[k.HashKey()] = DictPair{Key: k, Value: v}, between two Next() calls.
DictSet(k, v) ==
    /\ active = DICT_OBJ
    /\ muts < MaxMuts
    /\ dict' = [dict EXCEPT !.Pairs = MapPut(@, HashKey(k), DictPair(k, v))]
    /\ modified' = TRUE
    /\ changedBefore' =
           (changedBefore \/ (/\ ~PassOver
                              /\ HashKey(k) \notin DOMAIN dict.Pairs
                              /\ KeysBefore(dict.Pairs, k) < dict.offset))
    /\ present' = present \cap Range(dict'.Pairs)
    /\ muts' = muts + 1
    /\ lastOp' = "Set"
    /\ UNCHANGED <<active, str, arr, log>>
    /\ UNCHANGED <<hashVars, intVars>>

\* delete(d.Pairs, k.HashKey()), between two Next() calls.
DictDelete(k) ==
    /\ active = DICT_OBJ
    /\ muts < MaxMuts
    /\ HashKey(k) \in DOMAIN dict.Pairs
    /\ dict' = [dict EXCEPT !.Pairs = MapDelete(@, HashKey(k))]
    /\ modified' = TRUE
    /\ changedBefore' =
           (changedBefore \/ (~PassOver /\ KeysBefore(dict.Pairs, k) < dict.offset))
    /\ present' = present \cap Range(dict'.Pairs)
    /\ muts' = muts + 1
    /\ lastOp' = "Delete"
    /\ UNCHANGED <<active, str, arr, log>>
    /\ UNCHANGED <<hashVars, intVars>>

\* ------------------------------------------------------------ specifications

EmptyString == [Value |-> <<>>, offset |-> 0]
EmptyArray == [Elements |-> <<>>, offset |-> 0]
EmptyDict == [Pairs |-> EmptyMap, offset |-> 0]

HashIdle ==
    /\ evalRes = Nil
    /\ lastKey = Nil
    /\ stored = EmptyMap

IntIdle ==
    /\ intA = ToInt64(0)
    /\ intB = ToInt64(0)
    /\ hkA = Nil
    /\ hkB = Nil

InitDicts ==
    {[Pairs |-> DictOf(K), offset |-> 0] :
        K \in {S \in SUBSET KeyUniverse : Cardinality(S) <= MaxPairs}}

InitIter ==
    /\ active \in {STRING_OBJ, ARRAY_OBJ, DICT_OBJ}
    /\ str \in IF active = STRING_OBJ
               THEN {[Value |-> s, offset |-> 0] : s \in SeqsUpTo(Bytes, MaxLen)}
               ELSE {EmptyString}
    /\ arr \in IF active = ARRAY_OBJ
               THEN {[Elements |-> e, offset |-> 0] : e \in SeqsUpTo(Elems, MaxLen)}
               ELSE {EmptyArray}
    /\ dict \in IF active = DICT_OBJ THEN InitDicts ELSE {EmptyDict}
    /\ log = <<>>
    /\ modified = FALSE
    /\ changedBefore = FALSE
    /\ present = Range(dict.Pairs)
    /\ muts = 0
    /\ lastOp = "init"
    /\ HashIdle
    /\ IntIdle

NextIter ==
    \/ \E t \in Traversals : StringNext(t)
    \/ StringReset
    \/ \E t \in Traversals : ArrayNext(t)
    \/ ArrayReset
    \/ \E t \in Traversals : DictNext(t)
    \/ DictReset

SpecIter == InitIter /\ [][NextIter]_vars

InitMut ==
    /\ active = DICT_OBJ
    /\ str = EmptyString
    /\ arr = EmptyArray
    /\ dict \in {d \in InitDicts : \A pr \in Range(d.Pairs) : pr.Key \in MutKeys}
    /\ log = <<>>
    /\ modified = FALSE
    /\ changedBefore = FALSE
    /\ present = Range(dict.Pairs)
    /\ muts = 0
    /\ lastOp = "init"
    /\ HashIdle
    /\ IntIdle

NextMut ==
    \/ DictNext(1)
    \/ DictReset
    \/ \E k \in MutKeys, v \in ValueUniverse : DictSet(k, v)
    \/ \E k \in MutKeys : DictDelete(k)

SpecMut == InitMut /\ [][NextMut]_vars

\* ------------------------------------------------------------ Dict keys

MaxSets == 3

\* "not hashable"
NotHashableError ==
    Obj(ERROR_OBJ, <<110, 111, 116, 32, 104, 97, 115, 104, 97, 98, 108, 101>>)

\* One value of every kind; 0.0 and -0.0 are equal floats.
HashableObjects ==
    {IntegerOf(1), FloatOf(0, 2), FloatOf(0, 0), FloatOf(1, 0),
     BooleanOf(TRUE), StringOf(<<49>>)}

UnhashableObjects ==
    {Obj(t, <<>>) : t \in {NULL_OBJ, ARRAY_OBJ, DICT_OBJ, FUNCTION_OBJ, BUILTIN_OBJ,
                          RETURN_VALUE_OBJ, ERROR_OBJ, CONTINUE_OBJ, BREAK_OBJ}}

\* Go's == on the Value fields of two objects of one kind.
ValueEqual(a, b) ==
    IF a.Type = FLOAT_OBJ
    THEN a.Value[2] = b.Value[2] /\ (a.Value[1] = b.Value[1] \/ a.Value[2] = 0)
    ELSE a.Value = b.Value

SameKey(a, b) == a.Type = b.Type /\ ValueEqual(a, b)

\* The evaluator stores v under key k: a key that is not Hashable is reported.
EvalDictSet(k, v) ==
    /\ muts < MaxSets
    /\ lastKey' = k
    /\ lastOp' = "Set"
    /\ IF Hashable(k)
       THEN /\ dict' = [dict EXCEPT !.Pairs = MapPut(@, HashKey(k), DictPair(k, v))]
            /\ evalRes' = v
            /\ stored' = [x \in DOMAIN stored \cup {k} |->
                            IF SameKey(x, k) THEN v ELSE stored[x]]
            /\ muts' = muts + 1
       ELSE /\ evalRes' = NotHashableError
            /\ UNCHANGED <<dict, stored, muts>>
    /\ UNCHANGED <<active, str, arr, log, modified, changedBefore, present>>
    /\ UNCHANGED intVars

\* The evaluator looks key k up: the stored value, or null.
EvalDictGet(k) ==
    /\ lastKey' = k
    /\ lastOp' = "Get"
    /\ evalRes' = IF ~Hashable(k) THEN NotHashableError
                  ELSE IF HashKey(k) \in DOMAIN dict.Pairs
                       THEN dict.Pairs[HashKey(k)].Value
                       ELSE Null
    /\ UNCHANGED <<iterVars, stored, intVars>>

\* ------------------------------------------------------------ Integer keys

Int64Samples ==
    {<<a, b, c, d>> : a \in {0, 1, Limb - 1}, b \in {0, Limb - 1}, c \in {0, Limb - 1},
                      d \in {-(Limb \div 2), -1, 0, 1, (Limb \div 2) - 1}}

HashA ==
    /\ hkA = Nil
    /\ hkA' = HashKey(Obj(INTEGER_OBJ, intA))
    /\ lastOp' = "HashKey"
    /\ UNCHANGED <<iterVars, hashVars, intA, intB, hkB>>

HashB ==
    /\ hkB = Nil
    /\ hkB' = HashKey(Obj(INTEGER_OBJ, intB))
    /\ lastOp' = "HashKey"
    /\ UNCHANGED <<iterVars, hashVars, intA, intB, hkA>>

IterIdle ==
    /\ active = DICT_OBJ
    /\ str = EmptyString
    /\ arr = EmptyArray
    /\ dict = EmptyDict
    /\ log = <<>>
    /\ modified = FALSE
    /\ changedBefore = FALSE
    /\ present = {}
    /\ muts = 0

InitHash ==
    /\ IterIdle
    /\ lastOp = "init"
    /\ HashIdle
    /\ IntIdle

NextHash ==
    \/ \E k \in HashableObjects \cup UnhashableObjects, v \in ValueUniverse : EvalDictSet(k, v)
    \/ \E k \in HashableObjects \cup UnhashableObjects : EvalDictGet(k)

SpecHash == InitHash /\ [][NextHash]_vars

InitInt ==
    /\ IterIdle
    /\ lastOp = "init"
    /\ HashIdle
    /\ intA \in Int64Samples
    /\ intB \in Int64Samples
    /\ hkA = Nil
    /\ hkB = Nil

NextInt == HashA \/ HashB

SpecInt == InitInt /\ [][NextInt]_vars

\* ------------------------------------------------------------ iteration: properties

Cursor ==
    CASE active = STRING_OBJ -> str.offset
      [] active = ARRAY_OBJ -> arr.offset
      [] active = DICT_OBJ -> dict.offset
      [] OTHER -> 0

Size ==
    CASE active = STRING_OBJ -> Len(str.Value)
      [] active = ARRAY_OBJ -> Len(arr.Elements)
      [] active = DICT_OBJ -> Cardinality(DOMAIN dict.Pairs)
      [] OTHER -> 0

Contents ==
    CASE active = STRING_OBJ -> str.Value
      [] active = ARRAY_OBJ -> arr.Elements
      [] active = DICT_OBJ -> dict.Pairs
      [] OTHER -> <<>>

IsYield(e) == e.key # Nil
IsAbsent(e) == e.key = Nil /\ e.val = Nil

\* The calls of the pass that yielded an element.
Yields == SelectSeq(log, IsYield)

Exhausted == log # <<>> /\ IsAbsent(log[Len(log)])

\* text has rank c in the ascending list of the rendered keys of pairs.
HasRank(pairs, text, c) ==
    /\ Cardinality({h \in DOMAIN pairs : StrLess(Inspect(pairs[h].Key), text)}) <= c
    /\ c < Cardinality({h \in DOMAIN pairs : StrLeq(Inspect(pairs[h].Key), text)})

\* The orders in which an iterator that sorts the pairs once by rendered key
\* can traverse them.
RefOrders(pairs) ==
    {f \in [1..Cardinality(DOMAIN pairs) -> Range(pairs)] :
        /\ \A i, j \in DOMAIN f : i # j => f[i] # f[j]
        /\ \A i, j \in DOMAIN f : i < j => StrLeq(Inspect(f[i].Key), Inspect(f[j].Key))}

\* C1: a complete pass over an unmodified Dict of n entries yields each of the
\* n stored pairs exactly once, in ascending order of the rendered keys, and
\* then (absent, absent).
C1_DictPassYieldsEachPairOnce ==
    (active = DICT_OBJ /\ ~modified /\ Exhausted) =>
        /\ Len(Yields) = Size
        /\ {DictPair(Yields[i].key, Yields[i].val) : i \in 1..Len(Yields)} = Range(dict.Pairs)
        /\ \A i, j \in 1..Len(Yields) :
               i < j => StrLeq(Inspect(Yields[i].key), Inspect(Yields[j].key))
        /\ \A i, j \in 1..Len(log) : (i < j /\ IsAbsent(log[i])) => IsAbsent(log[j])

\* C2: the i-th Next() of a pass over a String of n bytes yields (i-1, the
\* String made of byte i-1) for i <= n, and (absent, absent) afterwards.
C2_StringPassYieldsBytes ==
    active = STRING_OBJ =>
        \A i \in 1..Len(log) :
            IF i <= Len(str.Value)
            THEN /\ log[i].key = IntegerOf(i - 1)
                 /\ log[i].val = StringOf(<<str.Value[i]>>)
            ELSE IsAbsent(log[i])

\* The element a Next() call hands out at cursor position c.
ContinuesAt(e, c) ==
    IF c >= Size THEN IsAbsent(e)
    ELSE CASE active = STRING_OBJ -> e.key = IntegerOf(c) /\ e.val.Type = STRING_OBJ
           [] active = ARRAY_OBJ -> e.key = IntegerOf(c) /\ e.val = arr.Elements[c + 1]
           [] active = DICT_OBJ ->
                /\ DictPair(e.key, e.val) \in Range(dict.Pairs)
                /\ HasRank(dict.Pairs, Inspect(e.key), c)

\* C5: a Next() continues at the current cursor position and never moves the
\* cursor back; the cursor moves back only in a Reset(), which puts it at the
\* first element.
C5_CursorRewindsOnlyOnReset ==
    [][/\ lastOp' = "Next" =>
            (Cursor' >= Cursor /\ ContinuesAt(log'[Len(log')], Cursor))
       /\ Cursor' < Cursor => lastOp' = "Reset"
       /\ lastOp' = "Reset" => Cursor' = 0]_vars

\* Calls went on after the pass was exhausted, and the cursor stayed at the end.
C5_Witness ==
    /\ active = ARRAY_OBJ
    /\ Size >= 2
    /\ lastOp = "Next"
    /\ Len(log) = Size + 2
    /\ Cursor = Size

PositionsOf(t) == {log[i].pos : i \in {j \in 1..Len(log) : IsYield(log[j]) /\ log[j].t = t}}

\* C6: two traversals interleaving Next() on one instance share the cursor:
\* no position is yielded twice, the yields total n once the pass is
\* exhausted, and a traversal that saw all n positions left none to the other.
C6_SharedCursorSplitsPass ==
    ~modified =>
        /\ \A i, j \in 1..Len(log) :
               (i < j /\ IsYield(log[i]) /\ IsYield(log[j])) => log[i].pos # log[j].pos
        /\ \A i \in 1..Len(log) :
               IsYield(log[i]) =>
                   (log[i].pos < Size /\ (active # DICT_OBJ => log[i].key = IntegerOf(log[i].pos)))
        /\ Len(Yields) <= Size
        /\ Exhausted => (Len(Yields) = Size /\ PositionsOf(1) \cup PositionsOf(2) = 0..(Size - 1))
        /\ \A t \in Traversals :
               PositionsOf(t) = 0..(Size - 1) => PositionsOf(3 - t) = {}

\* Both traversals received elements of one exhausted pass.
C6_Witness ==
    /\ active \in {ARRAY_OBJ, DICT_OBJ}
    /\ Size >= 2
    /\ Exhausted
    /\ PositionsOf(1) # {}
    /\ PositionsOf(2) # {}

\* C8: every call of a pass over an unmodified Dict yields what an iterator
\* that sorts the stored pairs once and advances an index yields.
C8_DictNextMatchesSortOnce ==
    (active = DICT_OBJ /\ ~modified) =>
        \E ref \in RefOrders(dict.Pairs) :
            \A i \in 1..Len(log) :
                IF i <= Size
                THEN DictPair(log[i].key, log[i].val) = ref[i]
                ELSE IsAbsent(log[i])

\* C9: without a change of the contents the cursor stays within 0..n; a
\* Next() that yields moves it by one, a Next() that yields nothing leaves the
\* cursor and the contents as they are.
C9_CursorWithinBounds ==
    /\ [](~modified => (0 <= Cursor /\ Cursor <= Size))
    /\ [][lastOp' = "Next" =>
            IF IsYield(log'[Len(log')])
            THEN Cursor' = Cursor + 1 /\ Contents' = Contents
            ELSE Cursor' = Cursor /\ Contents' = Contents]_vars

\* A Dict pass was exhausted and Next() called again: the cursor is at n.
C9_Witness ==
    /\ active = DICT_OBJ
    /\ Size >= 2
    /\ Len(log) = Size + 2
    /\ Cursor = Size

\* C10 (as amended): whatever was inserted or removed before, a Next() yields
\* a stored pair whose rendered key has, in the current sorted key list, the
\* rank given by the number of elements yielded since the last Reset(), and
\* (absent, absent) when that number is not below the number of pairs.
C10_NextYieldsRankOfYieldCount ==
    [][(lastOp' = "Next" /\ active = DICT_OBJ) =>
            LET e == log'[Len(log')]
                c == Len(Yields)
            IN  IF c < Cardinality(DOMAIN dict.Pairs)
                THEN /\ DictPair(e.key, e.val) \in Range(dict.Pairs)
                     /\ HasRank(dict.Pairs, Inspect(e.key), c)
                ELSE IsAbsent(e)]_vars

\* A pair was yielded after the Dict changed in the middle of the pass.
C10_Witness ==
    /\ active = DICT_OBJ
    /\ modified
    /\ lastOp = "Next"
    /\ Len(log) >= 2
    /\ IsYield(log[Len(log)])

\* Every pair stored during the whole pass was yielded exactly once.
NoPairTwiceOrSkipped ==
    \A pr \in present :
        Cardinality({i \in 1..Len(log) : DictPair(log[i].key, log[i].val) = pr}) = 1

\* C10 (as stated): at the end of a pass with pairs stored during the whole
\* pass, none of them was yielded twice or skipped only if every key inserted
\* or removed during the pass sorted after the cursor position.
C10_NoSkipOnlyIfChangesAfterCursor ==
    (active = DICT_OBJ /\ Exhausted /\ present # {}) =>
        (NoPairTwiceOrSkipped => ~changedBefore)

\* ------------------------------------------------------------ keys: properties

\* The number of distinct (kind, value) identities among the keys stored.
Identities == {{y \in DOMAIN stored : SameKey(x, y)} : x \in DOMAIN stored}

\* C3: keys of different kinds never share an entry and value-equal keys of
\* one kind always do: the Dict holds one entry per (kind, value) stored, and
\* a lookup finds the value last stored under a key of the same kind and value.
C3_KeyIdentityIsKindAndValue ==
    /\ Cardinality(DOMAIN dict.Pairs) = Cardinality(Identities)
    /\ (lastOp = "Get" /\ Hashable(lastKey)) =>
           evalRes = IF \E x \in DOMAIN stored : SameKey(x, lastKey)
                     THEN stored[CHOOSE x \in DOMAIN stored : SameKey(x, lastKey)]
                     ELSE Null

\* C4: two Integers are equal exactly when their HashKeys are.
C4_IntegerHashKeyInjective ==
    (hkA # Nil /\ hkB # Nil) => ((intA = intB) <=> (hkA = hkB))

\* Two different negative Integers that agree in their low 32 bits were hashed.
C4_Witness ==
    /\ hkA # Nil
    /\ hkB # Nil
    /\ intA # intB
    /\ intA[4] < 0
    /\ intB[4] < 0
    /\ intA[1] = intB[1]
    /\ intA[2] = intB[2]

\* C7: a key of a kind other than Integer, Float, Boolean and String is
\* answered with the "not hashable" error and leaves the Dict as it was; a key
\* of those four kinds is never answered with an error.
C7_OnlyFourKindsHash ==
    [][lastOp' \in {"Set", "Get"} =>
            IF lastKey'.Type \in {INTEGER_OBJ, FLOAT_OBJ, BOOLEAN_OBJ, STRING_OBJ}
            THEN evalRes'.Type # ERROR_OBJ
            ELSE evalRes' = NotHashableError /\ dict' = dict /\ stored' = stored]_vars

\* An Array was refused as the key of a Dict that holds entries.
C7_Witness ==
    /\ lastOp = "Set"
    /\ lastKey.Type = ARRAY_OBJ
    /\ evalRes = NotHashableError
    /\ Cardinality(DOMAIN dict.Pairs) >= 2

====
